---- MODULE Spec2Model ----
(***************************************************************************)
(* Model of the StockApp admin layer: the Account / AvailableStock /       *)
(* Complaint tables (models.py), their save-time validation, and the       *)
(* role-based scoping, permission checks and bulk actions of admin.py.     *)
(***************************************************************************)
EXTENDS Integers, FiniteSets, TLC

\* ------------------------------------------------------------------ bounds
NumStocks == 2          \* AvailableStock primary keys are 1..NumStocks
MaxTime == 2            \* timezone.now() ranges over 1..MaxTime

\* ---------------------------------------------------------------- universe
NULL == "NULL"          \* Python None in a nullable char / foreign-key column
NoDate == 0             \* Python None in Complaint.resolution_date
NoObj == 0              \* obj=None passed to a has_change_permission hook

Departments == {"IT", "HR"}
Categories == {"Laptop"}
Users == {"root", "adm", "st1", "st2", "st0", "nobody"}

StockIds == 1..NumStocks
ComplaintIds == {1, 2}

ROLE_CHOICES == {"admin", "staff"}
StockStatusChoices == {"available", "maintenance", "retired", "inuse"}
\* Model.save() does not validate choices, so the former "assigned" value is
\* still an input of AvailableStock.save
StockStatusInputs == StockStatusChoices \cup {"assigned"}
Names == {"Bob"}
ComplaintStatusChoices == {"pending", "in_progress", "resolved", "closed"}
NotesInputs == {NULL, "", "fixed"}

VARIABLES accounts, stocks, complaints, now, last

vars == <<accounts, stocks, complaints, now, last>>

\* request.user.is_superuser
is_superuser(user) == user = "root"

\* request.user.account exists (otherwise Account.DoesNotExist is raised)
HasAccount(user) == user \in DOMAIN accounts

\* Python truthiness of a nullable text value: None and '' are falsy
Truthy(v) == v \notin {NULL, ""}

\* The Account table: one row per linked user, keyed by the user
InitAccounts ==
    [u \in {"adm", "st1", "st2", "st0"} |->
        CASE u = "adm" -> [role |-> "admin", department |-> "IT"]
          [] u = "st1" -> [role |-> "staff", department |-> "IT"]
          [] u = "st2" -> [role |-> "staff", department |-> "HR"]
          [] u = "st0" -> [role |-> "staff", department |-> NULL]]

NoStock == [department |-> NULL, status |-> NULL, assigned_to |-> NULL]
NoComplaint == [submitted_by |-> NULL, status |-> NULL, assigned_to |-> NULL,
                resolution_notes |-> NULL, resolution_date |-> NoDate]

\* The record of the last request: operation, actor, target row, selection,
\* submitted stock / complaint object, and what came back
Idle == [op |-> "init", user |-> NULL, id |-> NoObj, sel |-> {}, field |-> NULL,
         stock |-> NoStock, complaint |-> NoComplaint,
         perm |-> FALSE, outcome |-> "ok", rows |-> {}, granted |-> FALSE]

\* ------------------------------------------------------- AvailableStock

StockInputs == [department : Departments, status : StockStatusInputs,
                assigned_to : {NULL} \cup Names]

\* AvailableStock.clean: "ValidationError" or the normalised object
StockCleanRejects(obj) == obj.status = "assigned" /\ ~Truthy(obj.assigned_to)

\* Variant: assigned_to is kept whatever the status
StockClean_NoClear(obj) == obj

StockClean(obj) ==
    IF obj.status # "assigned" /\ Truthy(obj.assigned_to)
    THEN [obj EXCEPT !.assigned_to = NULL]
    ELSE obj

\* AvailableStock.save on behalf of user: clean, then the row is written
StockSaveBy(user, id, obj) ==
    /\ IF StockCleanRejects(obj)
       THEN /\ stocks' = stocks
            /\ last' = [Idle EXCEPT !.op = "stock_save", !.user = user, !.id = id,
                                    !.stock = obj, !.outcome = "ValidationError"]
       ELSE /\ stocks' = [i \in DOMAIN stocks \cup {id} |->
                            IF i = id THEN StockClean(obj) ELSE stocks[i]]
            /\ last' = [Idle EXCEPT !.op = "stock_save", !.user = user, !.id = id,
                                    !.stock = obj]
    /\ UNCHANGED <<accounts, complaints, now>>

\* AvailableStock.save, whoever calls it
StockSave(id, obj) == StockSaveBy(NULL, id, obj)

\* queryset.update(status=..., assigned_to=None) on the selected rows
StockUpdate(sel, status) ==
    [i \in DOMAIN stocks |->
        IF i \in sel THEN [stocks[i] EXCEPT !.status = status, !.assigned_to = NULL]
        ELSE stocks[i]]

\* A bulk action run by user on the selected rows
StockBulkBy(op, user, sel, status) ==
    /\ stocks' = StockUpdate(sel, status)
    /\ last' = [Idle EXCEPT !.op = op, !.user = user, !.sel = sel]
    /\ UNCHANGED <<accounts, complaints, now>>

\* The three bulk actions never read the request
StockBulk(op, sel, status) == StockBulkBy(op, NULL, sel, status)

mark_as_available(sel) == StockBulk("mark_as_available", sel, "available")

mark_as_maintenance(sel) == StockBulk("mark_as_maintenance", sel, "maintenance")

mark_as_retired(sel) == StockBulk("mark_as_retired", sel, "retired")

\* Variant: a staff account is given every row, like an admin
StockQueryset_Unscoped(user) ==
    IF is_superuser(user) THEN DOMAIN stocks
    ELSE IF ~HasAccount(user) THEN {}
    ELSE IF accounts[user].role \in {"admin", "staff"} THEN DOMAIN stocks
    ELSE {}

\* AvailableStockAdmin.get_queryset: the ids of the rows returned
StockQueryset(user) ==
    IF is_superuser(user) THEN DOMAIN stocks
    ELSE IF ~HasAccount(user) THEN {}
    ELSE IF accounts[user].role = "admin" THEN DOMAIN stocks
    ELSE IF accounts[user].role = "staff" /\ accounts[user].department # NULL
         THEN {i \in DOMAIN stocks : stocks[i].department = accounts[user].department}
    ELSE {}

StockGetQueryset(user) ==
    /\ last' = [Idle EXCEPT !.op = "stock_get_queryset", !.user = user,
                            !.rows = StockQueryset(user)]
    /\ UNCHANGED <<accounts, stocks, complaints, now>>

\* The default choice set of a foreign-key form field: the whole related table
DefaultChoices(db_field) == IF db_field = "department" THEN Departments ELSE Categories

\* AvailableStockAdmin.formfield_for_foreignkey: the choice set of the field
FormfieldChoices(db_field, user) ==
    IF db_field = "department" /\ ~is_superuser(user)
    THEN IF ~HasAccount(user) THEN {}
         ELSE IF accounts[user].role = "staff" /\ accounts[user].department # NULL
              THEN {d \in Departments : d = accounts[user].department}
              ELSE DefaultChoices(db_field)
    ELSE DefaultChoices(db_field)

StockFormfieldForForeignkey(db_field, user) ==
    /\ last' = [Idle EXCEPT !.op = "stock_formfield", !.user = user, !.field = db_field,
                            !.rows = FormfieldChoices(db_field, user)]
    /\ UNCHANGED <<accounts, stocks, complaints, now>>

\* super().has_change_permission: the framework's model-level permission of
\* the user (perm), which a superuser always holds
ModelAdminHasChangePermission(user, perm) == is_superuser(user) \/ perm

\* AvailableStockAdmin.has_change_permission: "DoesNotExist" when
\* request.user.account is read for a user without an Account
StockPermOutcome(user, id) ==
    IF ~is_superuser(user) /\ id # NoObj /\ ~HasAccount(user)
    THEN "DoesNotExist" ELSE "ok"

\* Variant: the department check is skipped for role=admin
StockPermGranted_AdminBypass(user, id, perm) ==
    IF ~is_superuser(user) /\ id # NoObj /\ accounts[user].role # "admin"
       /\ stocks[id].department # accounts[user].department
    THEN FALSE
    ELSE ModelAdminHasChangePermission(user, perm)

StockPermGranted(user, id, perm) ==
    IF ~is_superuser(user) /\ id # NoObj
       /\ stocks[id].department # accounts[user].department
    THEN FALSE
    ELSE ModelAdminHasChangePermission(user, perm)

StockHasChangePermission(user, id, perm) ==
    /\ last' = [Idle EXCEPT !.op = "stock_has_change_permission", !.user = user,
                            !.id = id, !.perm = perm,
                            !.outcome = StockPermOutcome(user, id),
                            !.granted = IF StockPermOutcome(user, id) = "ok"
                                        THEN StockPermGranted(user, id, perm)
                                        ELSE FALSE]
    /\ UNCHANGED <<accounts, stocks, complaints, now>>


\* ------------------------------------------------------------ Complaint

\* The editable fields of the complaint form (status & assignment fieldset)
ComplaintFormInputs == [status : ComplaintStatusChoices, assigned_to : {NULL, "adm"},
                        resolution_notes : NotesInputs, resolution_date : 0..MaxTime]

\* A submitted form bound to its instance: submitted_by is not a form field
ComplaintObj(form, submitted_by) ==
    [submitted_by |-> submitted_by, status |-> form.status,
     assigned_to |-> form.assigned_to, resolution_notes |-> form.resolution_notes,
     resolution_date |-> form.resolution_date]

\* Variant: the in_progress / assigned_to check is missing
ComplaintClean_NoAssignCheck(obj) ==
    IF obj.status \in {"resolved", "closed"} /\ ~Truthy(obj.resolution_notes)
    THEN "ValidationError(resolution_notes)"
    ELSE "ok"

\* Complaint.clean: "ok", or the ValidationError with the field it names
ComplaintClean(obj) ==
    IF obj.status \in {"resolved", "closed"} /\ ~Truthy(obj.resolution_notes)
    THEN "ValidationError(resolution_notes)"
    ELSE IF obj.status = "in_progress" /\ obj.assigned_to = NULL
    THEN "ValidationError(assigned_to)"
    ELSE "ok"

\* Complaint.save up to the write: clean, then the resolution-date stamp,
\* whose timezone.now() is a NameError (models.py imports no timezone)
ComplaintSaveOutcome(obj) ==
    IF ComplaintClean(obj) # "ok" THEN ComplaintClean(obj)
    ELSE IF obj.status = "resolved" /\ obj.resolution_date = NoDate THEN "NameError"
    ELSE "ok"

\* Complaint.save
ComplaintSave(op, user, id, obj) ==
    /\ complaints' = IF ComplaintSaveOutcome(obj) = "ok"
                     THEN [i \in DOMAIN complaints \cup {id} |->
                             IF i = id THEN obj ELSE complaints[i]]
                     ELSE complaints
    /\ last' = [Idle EXCEPT !.op = op, !.user = user, !.id = id, !.complaint = obj,
                            !.outcome = ComplaintSaveOutcome(obj)]
    /\ UNCHANGED <<accounts, stocks, now>>

\* Variant: submitted_by is set from the request on every save, edits included
ComplaintSaveModel_AlwaysStamp(user, id, form) ==
    IF ~HasAccount(user)
    THEN /\ last' = [Idle EXCEPT !.op = IF id \in DOMAIN complaints
                                        THEN "complaint_change" ELSE "complaint_add",
                                 !.user = user, !.id = id,
                                 !.complaint = ComplaintObj(form, NULL),
                                 !.outcome = "DoesNotExist"]
         /\ UNCHANGED <<accounts, stocks, complaints, now>>
    ELSE ComplaintSave(IF id \in DOMAIN complaints THEN "complaint_change"
                       ELSE "complaint_add", user, id, ComplaintObj(form, user))

\* ComplaintAdmin.save_model: a new complaint gets the actor's Account as
\* submitted_by (Account.DoesNotExist without one), then obj.save()
ComplaintSaveModel(user, id, form) ==
    IF id \notin DOMAIN complaints
    THEN IF ~HasAccount(user)
         THEN /\ last' = [Idle EXCEPT !.op = "complaint_add", !.user = user, !.id = id,
                                      !.complaint = ComplaintObj(form, NULL),
                                      !.outcome = "DoesNotExist"]
              /\ UNCHANGED <<accounts, stocks, complaints, now>>
         ELSE ComplaintSave("complaint_add", user, id, ComplaintObj(form, user))
    ELSE ComplaintSave("complaint_change", user, id,
                       ComplaintObj(form, complaints[id].submitted_by))

\* timezone.now() moves on between requests
Tick ==
    /\ now < MaxTime
    /\ now' = now + 1
    /\ last' = [Idle EXCEPT !.op = "tick"]
    /\ UNCHANGED <<accounts, stocks, complaints>>

\* Variant: rows that would fail Complaint.clean are skipped
ResolvedUpdate_Validated(sel) ==
    [i \in DOMAIN complaints |->
        IF i \in sel /\ Truthy(complaints[i].resolution_notes)
        THEN [complaints[i] EXCEPT !.status = "resolved", !.resolution_date = now]
        ELSE complaints[i]]

\* queryset.update(status='resolved', resolution_date=timezone.now(), ...)
ResolvedUpdate(sel) ==
    [i \in DOMAIN complaints |->
        IF i \in sel THEN [complaints[i] EXCEPT !.status = "resolved",
                                                 !.resolution_date = now]
        ELSE complaints[i]]

\* queryset.update(status='closed', ...)
ClosedUpdate(sel) ==
    [i \in DOMAIN complaints |->
        IF i \in sel THEN [complaints[i] EXCEPT !.status = "closed"]
        ELSE complaints[i]]

\* queryset.update(status='in_progress', assigned_to=request.user.account, ...)
InProgressUpdate(user, sel) ==
    [i \in DOMAIN complaints |->
        IF i \in sel THEN [complaints[i] EXCEPT !.status = "in_progress",
                                                 !.assigned_to = user]
        ELSE complaints[i]]

\* queryset.update(assigned_to=request.user.account, ...)
AssignUpdate(user, sel) ==
    [i \in DOMAIN complaints |->
        IF i \in sel THEN [complaints[i] EXCEPT !.assigned_to = user]
        ELSE complaints[i]]

mark_in_progress(user, sel) ==
    /\ complaints' = IF HasAccount(user) THEN InProgressUpdate(user, sel) ELSE complaints
    /\ last' = [Idle EXCEPT !.op = "mark_in_progress", !.user = user, !.sel = sel,
                            !.outcome = IF HasAccount(user) THEN "ok" ELSE "DoesNotExist"]
    /\ UNCHANGED <<accounts, stocks, now>>

mark_resolved(user, sel) ==
    /\ complaints' = ResolvedUpdate(sel)
    /\ last' = [Idle EXCEPT !.op = "mark_resolved", !.user = user, !.sel = sel]
    /\ UNCHANGED <<accounts, stocks, now>>

mark_closed(user, sel) ==
    /\ complaints' = ClosedUpdate(sel)
    /\ last' = [Idle EXCEPT !.op = "mark_closed", !.user = user, !.sel = sel]
    /\ UNCHANGED <<accounts, stocks, now>>

assign_to_me(user, sel) ==
    /\ complaints' = IF HasAccount(user) THEN AssignUpdate(user, sel) ELSE complaints
    /\ last' = [Idle EXCEPT !.op = "assign_to_me", !.user = user, !.sel = sel,
                            !.outcome = IF HasAccount(user) THEN "ok" ELSE "DoesNotExist"]
    /\ UNCHANGED <<accounts, stocks, now>>

\* Variant: a staff account is given every complaint
ComplaintQueryset_Unscoped(user) ==
    IF is_superuser(user) THEN DOMAIN complaints
    ELSE IF ~HasAccount(user) THEN {}
    ELSE IF accounts[user].role \in {"admin", "staff"} THEN DOMAIN complaints
    ELSE {}

\* ComplaintAdmin.get_queryset: the ids of the rows returned
ComplaintQueryset(user) ==
    IF is_superuser(user) THEN DOMAIN complaints
    ELSE IF ~HasAccount(user) THEN {}
    ELSE IF accounts[user].role = "admin" THEN DOMAIN complaints
    ELSE IF accounts[user].role = "staff"
         THEN {i \in DOMAIN complaints : complaints[i].submitted_by = user}
    ELSE {}

ComplaintGetQueryset(user) ==
    /\ last' = [Idle EXCEPT !.op = "complaint_get_queryset", !.user = user,
                            !.rows = ComplaintQueryset(user)]
    /\ UNCHANGED <<accounts, stocks, complaints, now>>

\* Variant: a staff account may edit its own complaints whatever their status
ComplaintPermGranted_AnyStatus(user, id) ==
    IF id = NoObj THEN TRUE
    ELSE IF is_superuser(user) THEN TRUE
    ELSE IF ~HasAccount(user) THEN FALSE
    ELSE IF accounts[user].role = "admin" THEN TRUE
    ELSE IF accounts[user].role = "staff" THEN complaints[id].submitted_by = user
    ELSE FALSE

\* ComplaintAdmin.has_change_permission
ComplaintPermGranted(user, id) ==
    IF id = NoObj THEN TRUE
    ELSE IF is_superuser(user) THEN TRUE
    ELSE IF ~HasAccount(user) THEN FALSE
    ELSE IF accounts[user].role = "admin" THEN TRUE
    ELSE IF accounts[user].role = "staff"
         THEN complaints[id].submitted_by = user /\ complaints[id].status = "pending"
    ELSE FALSE

ComplaintHasChangePermission(user, id) ==
    /\ last' = [Idle EXCEPT !.op = "complaint_has_change_permission", !.user = user,
                            !.id = id, !.granted = ComplaintPermGranted(user, id)]
    /\ UNCHANGED <<accounts, stocks, complaints, now>>

\* ------------------------------------------------- requests of an actor

\* ComplaintAdmin.get_readonly_fields: a staff account sees every field of an
\* existing complaint read-only, so its change form submits the stored values
ComplaintSubmittedForm(user, id, form) ==
    IF ~is_superuser(user) /\ HasAccount(user) /\ accounts[user].role = "staff"
    THEN [status |-> complaints[id].status, assigned_to |-> complaints[id].assigned_to,
          resolution_notes |-> complaints[id].resolution_notes,
          resolution_date |-> complaints[id].resolution_date]
    ELSE form

\* The change view of a complaint: refused unless has_change_permission
\* grants the row, then save_model with the fields the actor may edit
ComplaintChangeView(user, id, form) ==
    IF ComplaintPermGranted(user, id)
    THEN ComplaintSaveModel(user, id, ComplaintSubmittedForm(user, id, form))
    ELSE /\ last' = [Idle EXCEPT !.op = "complaint_change", !.user = user, !.id = id,
                                 !.outcome = "PermissionDenied"]
         /\ UNCHANGED <<accounts, stocks, complaints, now>>

\* The change view of a stock row: refused unless has_change_permission grants
\* the row; the department is picked from formfield_for_foreignkey's choices
StockChangeView(user, id, obj, perm) ==
    IF StockPermOutcome(user, id) = "ok" /\ StockPermGranted(user, id, perm)
    THEN /\ obj.department \in FormfieldChoices("department", user)
         /\ StockSaveBy(user, id, obj)
    ELSE /\ last' = [Idle EXCEPT !.op = "stock_save", !.user = user, !.id = id,
                                 !.outcome = IF StockPermOutcome(user, id) = "ok"
                                             THEN "PermissionDenied"
                                             ELSE StockPermOutcome(user, id)]
         /\ UNCHANGED <<accounts, stocks, complaints, now>>

\* The add view of a stock row, with the same department picker
StockAddView(user, id, obj) ==
    /\ id \notin DOMAIN stocks
    /\ obj.department \in FormfieldChoices("department", user)
    /\ StockSaveBy(user, id, obj)

\* ------------------------------------------------------ Account deletion

\* The Complaint table after Account a is deleted: submitted_by is
\* on_delete=CASCADE, assigned_to is on_delete=SET_NULL
ComplaintsAfterDelete(a) ==
    [i \in {j \in DOMAIN complaints : complaints[j].submitted_by # a} |->
        IF complaints[i].assigned_to = a
        THEN [complaints[i] EXCEPT !.assigned_to = NULL]
        ELSE complaints[i]]

\* Deleting an Account row (the admin's delete view or delete_selected)
DeleteAccount(a) ==
    /\ a \in DOMAIN accounts
    /\ accounts' = [u \in DOMAIN accounts \ {a} |-> accounts[u]]
    /\ complaints' = ComplaintsAfterDelete(a)
    /\ last' = [Idle EXCEPT !.op = "delete_account"]
    /\ UNCHANGED <<stocks, now>>

\* ------------------------------------------------------------ behaviours

NoStocks == [i \in {} |-> NoStock]
NoComplaints == [i \in {} |-> NoComplaint]

\* The state after the migrations and the creation of the users' accounts
Init ==
    /\ accounts = InitAccounts
    /\ stocks = NoStocks
    /\ complaints = NoComplaints
    /\ now = 1
    /\ last = Idle

\* Writes to the AvailableStock table
StockNext ==
    \/ \E id \in StockIds, obj \in StockInputs : StockSave(id, obj)
    \/ \E sel \in SUBSET DOMAIN stocks : mark_as_available(sel)
    \/ \E sel \in SUBSET DOMAIN stocks : mark_as_maintenance(sel)
    \/ \E sel \in SUBSET DOMAIN stocks : mark_as_retired(sel)

SpecStock == Init /\ [][StockNext]_vars

\* The rows AvailableStock.save can leave in the table
StockRows == {StockClean(obj) : obj \in {o \in StockInputs : ~StockCleanRejects(o)}}

StockTables == UNION {[S -> StockRows] : S \in SUBSET StockIds}

InitStockScope ==
    /\ accounts = InitAccounts
    /\ stocks \in StockTables
    /\ complaints = NoComplaints
    /\ now = 1
    /\ last = Idle

\* Reads of the AvailableStock admin: list scoping, pickers, edit permission
StockScopeNext ==
    \/ \E user \in Users : StockGetQueryset(user)
    \/ \E user \in Users, f \in {"department", "category"} :
          StockFormfieldForForeignkey(f, user)
    \/ \E user \in Users, id \in DOMAIN stocks \cup {NoObj}, perm \in BOOLEAN :
          StockHasChangePermission(user, id, perm)

SpecStockScope == InitStockScope /\ [][StockScopeNext]_vars

\* Adds and edits of one complaint through the change form
SaveUsers == {"st1", "nobody"}

ComplaintSaveNext ==
    \E user \in SaveUsers, form \in ComplaintFormInputs : ComplaintSaveModel(user, 1, form)

SpecComplaintSave == Init /\ [][ComplaintSaveNext]_vars

\* New complaints as the add form's defaults leave them, then bulk actions
NewComplaintForms == {f \in ComplaintFormInputs :
                        /\ f.status = "pending" /\ f.assigned_to = NULL
                        /\ f.resolution_date = NoDate
                        /\ f.resolution_notes \in {"", "fixed"}}

BulkUsers == {"adm", "nobody"}

ComplaintBulkNext ==
    \/ \E id \in ComplaintIds \ DOMAIN complaints, form \in NewComplaintForms :
          ComplaintSaveModel("st1", id, form)
    \/ \E user \in BulkUsers, sel \in SUBSET DOMAIN complaints : mark_in_progress(user, sel)
    \/ \E user \in BulkUsers, sel \in SUBSET DOMAIN complaints : mark_resolved(user, sel)
    \/ \E user \in BulkUsers, sel \in SUBSET DOMAIN complaints : mark_closed(user, sel)
    \/ \E user \in BulkUsers, sel \in SUBSET DOMAIN complaints : assign_to_me(user, sel)
    \/ Tick

SpecComplaintBulk == Init /\ [][ComplaintBulkNext]_vars

\* Complaint rows as saves and bulk actions leave them, one per submitter and status
ScopeComplaintRows ==
    {[submitted_by |-> u, status |-> s,
      assigned_to |-> IF s = "in_progress" THEN "adm" ELSE NULL,
      resolution_notes |-> IF s \in {"resolved", "closed"} THEN "fixed" ELSE NULL,
      resolution_date |-> IF s = "resolved" THEN 1 ELSE NoDate] :
        u \in {"adm", "st1", "st2"}, s \in ComplaintStatusChoices}

ComplaintTables == UNION {[S -> ScopeComplaintRows] : S \in SUBSET ComplaintIds}

InitComplaintScope ==
    /\ accounts = InitAccounts
    /\ stocks = NoStocks
    /\ complaints \in ComplaintTables
    /\ now = 1
    /\ last = Idle

\* Reads of the Complaint admin: list scoping and edit permission
ComplaintScopeNext ==
    \/ \E user \in Users : ComplaintGetQueryset(user)
    \/ \E user \in Users, id \in DOMAIN complaints \cup {NoObj} :
          ComplaintHasChangePermission(user, id)

SpecComplaintScope == InitComplaintScope /\ [][ComplaintScopeNext]_vars


\* The change form as an editor submits it: the date field left as displayed,
\* the assignee picked among the existing accounts
ChangeForms(id) == {f \in ComplaintFormInputs :
                      /\ f.resolution_date = complaints[id].resolution_date
                      /\ f.resolution_notes \in {"", "fixed"}
                      /\ f.assigned_to \in {NULL} \cup DOMAIN accounts}

DeletedAccounts == {"adm", "st1"}

\* The life of complaints: added by a staff account, edited and bulk-updated
\* by an admin account, with accounts deleted along the way
ComplaintLifeNext ==
    \/ \E id \in ComplaintIds \ DOMAIN complaints, form \in NewComplaintForms :
          ComplaintSaveModel("st1", id, form)
    \/ \E id \in DOMAIN complaints : \E form \in ChangeForms(id) :
          ComplaintSaveModel("adm", id, form)
    \/ \E sel \in SUBSET DOMAIN complaints : mark_in_progress("adm", sel)
    \/ \E sel \in SUBSET DOMAIN complaints : mark_resolved("adm", sel)
    \/ \E sel \in SUBSET DOMAIN complaints : mark_closed("adm", sel)
    \/ \E sel \in SUBSET DOMAIN complaints : assign_to_me("adm", sel)
    \/ \E a \in DeletedAccounts : DeleteAccount(a)

SpecComplaintLife == Init /\ [][ComplaintLifeNext]_vars

\* The accounts that work on complaints through the admin site
ComplaintActors == {"adm", "st1"}

\* Requests as the admin site serves them: complaints added by staff
\* accounts, change views behind has_change_permission, bulk actions on a
\* selection of the actor's own changelist
ComplaintSiteNext ==
    \/ \E user \in {"st1", "st2"}, id \in ComplaintIds \ DOMAIN complaints,
          form \in NewComplaintForms : ComplaintSaveModel(user, id, form)
    \/ \E user \in ComplaintActors, id \in DOMAIN complaints :
          \E form \in ChangeForms(id) : ComplaintChangeView(user, id, form)
    \/ \E user \in ComplaintActors : \E sel \in SUBSET ComplaintQueryset(user) :
          mark_in_progress(user, sel)
    \/ \E user \in ComplaintActors : \E sel \in SUBSET ComplaintQueryset(user) :
          mark_resolved(user, sel)
    \/ \E user \in ComplaintActors : \E sel \in SUBSET ComplaintQueryset(user) :
          mark_closed(user, sel)
    \/ \E user \in ComplaintActors : \E sel \in SUBSET ComplaintQueryset(user) :
          assign_to_me(user, sel)

SpecComplaintSite == Init /\ [][ComplaintSiteNext]_vars

\* The same for stock rows: add and change views, bulk actions on a selection
\* of the actor's own changelist
StockActors == {"adm", "st1", "st2", "st0"}

StockSiteNext ==
    \/ \E user \in StockActors, id \in StockIds, obj \in StockInputs :
          StockAddView(user, id, obj)
    \/ \E user \in StockActors, id \in DOMAIN stocks, obj \in StockInputs,
          perm \in BOOLEAN : StockChangeView(user, id, obj, perm)
    \/ \E user \in StockActors : \E sel \in SUBSET StockQueryset(user) :
          StockBulkBy("mark_as_available", user, sel, "available")
    \/ \E user \in StockActors : \E sel \in SUBSET StockQueryset(user) :
          StockBulkBy("mark_as_maintenance", user, sel, "maintenance")
    \/ \E user \in StockActors : \E sel \in SUBSET StockQueryset(user) :
          StockBulkBy("mark_as_retired", user, sel, "retired")

SpecStockSite == Init /\ [][StockSiteNext]_vars

\* ---------------------------------------------------------------- claims

\* The actor's role and department, NULL without an Account
RoleOf(user) == IF HasAccount(user) THEN accounts[user].role ELSE NULL

DeptOf(user) == IF HasAccount(user) THEN accounts[user].department ELSE NULL

SeesAll(user) == is_superuser(user) \/ RoleOf(user) = "admin"

\* C1: AvailableStockAdmin.get_queryset returns all rows to a superuser or an
\* admin account, exactly the rows of the actor's department to a staff account
\* with a department, and nothing to anyone else; a staff actor of department D
\* never receives a row of another department.
C1_StockQuerysetScoped ==
    last.op = "stock_get_queryset" =>
        /\ SeesAll(last.user) => last.rows = DOMAIN stocks
        /\ (~SeesAll(last.user) /\ RoleOf(last.user) = "staff" /\ DeptOf(last.user) # NULL)
              => last.rows = {i \in DOMAIN stocks : stocks[i].department = DeptOf(last.user)}
        /\ (~SeesAll(last.user) /\ (~HasAccount(last.user) \/ DeptOf(last.user) = NULL))
              => last.rows = {}
        /\ (~is_superuser(last.user) /\ RoleOf(last.user) = "staff")
              => \A i \in last.rows : stocks[i].department = DeptOf(last.user)

\* A staff account of IT lists a table holding an IT row and an HR row
C1_Witness ==
    /\ last.op = "stock_get_queryset" /\ last.user = "st1"
    /\ \E i, j \in DOMAIN stocks :
          /\ stocks[i].department = "IT" /\ stocks[j].department = "HR"
          /\ last.rows = {i}

\* C2: ComplaintAdmin.get_queryset returns all rows to a superuser or an admin
\* account, exactly the actor's own complaints to a staff account, and nothing
\* to anyone else; a staff actor never receives another account's complaint.
C2_ComplaintQuerysetScoped ==
    last.op = "complaint_get_queryset" =>
        /\ SeesAll(last.user) => last.rows = DOMAIN complaints
        /\ (~SeesAll(last.user) /\ RoleOf(last.user) = "staff")
              => last.rows = {i \in DOMAIN complaints :
                                 complaints[i].submitted_by = last.user}
        /\ (~SeesAll(last.user) /\ RoleOf(last.user) # "staff") => last.rows = {}

\* A staff account lists a table holding its own complaint and someone else's
C2_Witness ==
    /\ last.op = "complaint_get_queryset" /\ last.user = "st1"
    /\ \E i, j \in DOMAIN complaints :
          /\ complaints[i].submitted_by = "st1" /\ complaints[j].submitted_by = "st2"
          /\ last.rows = {i}

\* C3: a non-superuser actor without an Account gets nothing and no error: the
\* list scoping and the Department picker are empty, and the edit-permission
\* check on a row is answered with a refusal.
C3_NoAccountFailsClosed ==
    (last.user \in Users /\ ~is_superuser(last.user) /\ ~HasAccount(last.user)) =>
        /\ last.outcome = "ok"
        /\ last.op = "stock_get_queryset" => last.rows = {}
        /\ (last.op = "stock_formfield" /\ last.field = "department") => last.rows = {}
        /\ (last.op = "stock_has_change_permission" /\ last.id # NoObj) => ~last.granted

\* C4: a Complaint save with status resolved or closed and empty resolution
\* notes, or with status in_progress and no assignee, is rejected with a field
\* validation error and leaves the table unchanged; a successful save persists
\* a row whose resolved / closed status comes with notes and whose in_progress
\* status comes with an assignee.
C4_SaveValidated ==
    [][(last'.op \in {"complaint_add", "complaint_change"}
           /\ last'.outcome # "DoesNotExist") =>
          /\ ((last'.complaint.status \in {"resolved", "closed"}
                  /\ last'.complaint.resolution_notes \in {NULL, ""})
              \/ (last'.complaint.status = "in_progress"
                  /\ last'.complaint.assigned_to = NULL))
                => /\ last'.outcome \in {"ValidationError(resolution_notes)",
                                         "ValidationError(assigned_to)"}
                   /\ complaints' = complaints
          /\ last'.outcome = "ok" =>
                /\ last'.id \in DOMAIN complaints'
                /\ complaints'[last'.id] = last'.complaint
                /\ complaints'[last'.id].status \in {"resolved", "closed"}
                      => complaints'[last'.id].resolution_notes \notin {NULL, ""}
                /\ complaints'[last'.id].status = "in_progress"
                      => complaints'[last'.id].assigned_to # NULL]_vars

\* An edit sets an existing complaint to in_progress without an assignee and
\* is rejected with the assigned_to error
C4_Witness ==
    /\ last.op = "complaint_change"
    /\ last.complaint.status = "in_progress" /\ last.complaint.assigned_to = NULL
    /\ last.outcome = "ValidationError(assigned_to)"
    /\ complaints[last.id].status = "pending"

\* C5: a save that takes a complaint to resolved (with resolution notes)
\* succeeds and leaves resolution_date set, stamping it on the first
\* transition; a later successful save that keeps the complaint resolved
\* leaves resolution_date at the same value.
C5_ResolvedStampedAndStable ==
    [][(last'.op \in {"complaint_add", "complaint_change"}
           /\ last'.outcome # "DoesNotExist"
           /\ last'.complaint.status = "resolved"
           /\ last'.complaint.resolution_notes \notin {NULL, ""}) =>
          /\ last'.outcome = "ok"
          /\ complaints'[last'.id].resolution_date # NoDate
          /\ (last'.id \in DOMAIN complaints
                 /\ complaints[last'.id].status = "resolved"
                 /\ complaints[last'.id].resolution_date # NoDate)
                => complaints'[last'.id].resolution_date
                      = complaints[last'.id].resolution_date]_vars

C7_MarkResolvedUnvalidated ==
    [][last'.op = "mark_resolved" =>
          /\ last'.outcome = "ok"
          /\ DOMAIN complaints' = DOMAIN complaints
          /\ \A c \in DOMAIN complaints :
                IF c \in last'.sel
                THEN /\ complaints'[c].status = "resolved"
                     /\ complaints'[c].resolution_date # NoDate
                ELSE complaints'[c] = complaints[c]]_vars

\* A complaint without resolution notes was resolved by the bulk action while
\* a pending complaint outside the selection stayed pending
C7_Witness ==
    /\ last.op = "mark_resolved"
    /\ \E c \in last.sel :
          /\ complaints[c].resolution_notes \in {NULL, ""}
          /\ complaints[c].status = "resolved"
          /\ complaints[c].resolution_date # NoDate
    /\ \E d \in DOMAIN complaints \ last.sel : complaints[d].status = "pending"

\* C8: on an existing complaint a non-superuser is granted edit permission
\* only with role admin, or on a pending complaint of their own; a staff actor
\* is denied on complaints of others and on complaints no longer pending.
C8_ComplaintEditPermission ==
    (last.op = "complaint_has_change_permission" /\ last.id # NoObj
        /\ ~is_superuser(last.user)) =>
        /\ last.granted =>
              \/ RoleOf(last.user) = "admin"
              \/ /\ HasAccount(last.user)
                 /\ complaints[last.id].submitted_by = last.user
                 /\ complaints[last.id].status = "pending"
        /\ (RoleOf(last.user) = "staff"
               /\ (complaints[last.id].submitted_by # last.user
                      \/ complaints[last.id].status # "pending"))
              => ~last.granted

\* A staff account is denied on its own complaint that is already resolved
C8_Witness ==
    /\ last.op = "complaint_has_change_permission" /\ last.user = "st1"
    /\ last.id # NoObj
    /\ complaints[last.id].submitted_by = "st1"
    /\ complaints[last.id].status = "resolved"
    /\ ~last.granted

\* C9: on an AvailableStock row a non-superuser, staff or admin, is granted
\* edit permission only if the row's department is the department of their
\* Account; a superuser is granted whatever the row's department.
C9_StockEditPermission ==
    (last.op = "stock_has_change_permission" /\ last.id # NoObj) =>
        /\ (~is_superuser(last.user) /\ last.granted)
              => /\ HasAccount(last.user)
                 /\ stocks[last.id].department = DeptOf(last.user)
        /\ is_superuser(last.user) => (last.outcome = "ok" /\ last.granted)

\* An admin account of IT holding the model permission is denied on an HR row
C9_Witness ==
    /\ last.op = "stock_has_change_permission" /\ last.user = "adm" /\ last.perm
    /\ last.id # NoObj
    /\ stocks[last.id].department = "HR"
    /\ last.outcome = "ok" /\ ~last.granted

\* C10: the Department choices of the AvailableStock form are all departments
\* for a superuser or an admin account, and only the actor's own department
\* for every staff account.
C10_DepartmentPickerScoped ==
    (last.op = "stock_formfield" /\ last.field = "department") =>
        /\ SeesAll(last.user) => last.rows = Departments
        /\ (~SeesAll(last.user) /\ RoleOf(last.user) = "staff")
              => last.rows \subseteq {DeptOf(last.user)}

\* C11: a complaint's submitted_by is the creating actor's Account, and no
\* later edit through save_model and no bulk action changes the submitted_by
\* of any complaint.
C11_SubmittedByImmutable ==
    [][/\ \A c \in DOMAIN complaints \cap DOMAIN complaints' :
             complaints'[c].submitted_by = complaints[c].submitted_by
       /\ (last'.op = "complaint_add" /\ last'.outcome = "ok")
             => /\ last'.id \notin DOMAIN complaints
                /\ complaints'[last'.id].submitted_by = last'.user]_vars

\* An admin account has edited a complaint submitted by a staff account, and
\* the complaint is still the staff account's
C11_Witness ==
    /\ last.op = "complaint_change" /\ last.user = "adm" /\ last.outcome = "ok"
    /\ complaints[last.id].status = "closed"
    /\ complaints[last.id].submitted_by = "st1"

\* C12: every complaint with status in_progress has an assignee, whatever
\* saves, bulk actions and Account deletions came before; mark_in_progress
\* sets the assignee with the status.
C12_InProgressAssigned ==
    /\ \A c \in DOMAIN complaints :
          complaints[c].status = "in_progress" => complaints[c].assigned_to # NULL
    /\ (last.op = "mark_in_progress" /\ last.outcome = "ok")
          => \A c \in last.sel : /\ complaints[c].status = "in_progress"
                                 /\ complaints[c].assigned_to = last.user

\* C13: no request of a staff account (a change view behind
\* has_change_permission, a bulk action on a selection of its changelist)
\* changes a complaint that another account submitted or that is no longer
\* pending, nor a stock row of a department other than the account's.
C13_StaffConfined ==
    [][(last'.user \in Users /\ ~is_superuser(last'.user)
           /\ RoleOf(last'.user) = "staff") =>
          /\ \A c \in DOMAIN complaints :
                (complaints[c].submitted_by # last'.user
                    \/ complaints[c].status # "pending")
                   => (c \in DOMAIN complaints' /\ complaints'[c] = complaints[c])
          /\ \A i \in DOMAIN stocks :
                stocks[i].department # DeptOf(last'.user)
                   => (i \in DOMAIN stocks' /\ stocks'[i] = stocks[i])]_vars

\* The stock half of C13 alone
C13_StaffConfinedStock ==
    [][(last'.user \in Users /\ ~is_superuser(last'.user)
           /\ RoleOf(last'.user) = "staff") =>
          \A i \in DOMAIN stocks :
             stocks[i].department # DeptOf(last'.user)
                => (i \in DOMAIN stocks' /\ stocks'[i] = stocks[i])]_vars

\* The other-account half of C13 alone
C13_StaffConfinedOthers ==
    [][(last'.user \in Users /\ ~is_superuser(last'.user)
           /\ RoleOf(last'.user) = "staff") =>
          \A c \in DOMAIN complaints :
             complaints[c].submitted_by # last'.user
                => (c \in DOMAIN complaints' /\ complaints'[c] = complaints[c])]_vars

====
